---- MODULE Spec2Model ----
(***************************************************************************)
(* A model of fine_tuning.py: the BERT fine-tuning script of bert_intro.    *)
(*                                                                         *)
(*   Spec      train_model (lines 82-133) followed by the three            *)
(*             calculate_accuracy calls of __main__ (lines 226-228), one   *)
(*             action per step, with the position in the code in pc.       *)
(*   SpecEval  calculate_loss_and_accuracy and calculate_accuracy applied  *)
(*             to freely chosen datasets and weights (the same actions).   *)
(*   SpecPrep  the data preparation of __main__: the two-stage split, the  *)
(*             one-hot encoding and CreateDataset.__getitem__.              *)
(*                                                                         *)
(* Floats are kept as exact fractions <<numerator, denominator>>.  The     *)
(* arithmetic of the network is outside the model: the classifier is a     *)
(* deterministic map from (weights, input) to OUTPUT_SIZE logits, and the  *)
(* weights are an integer theta.                                           *)
(***************************************************************************)
EXTENDS Integers, Sequences, FiniteSets, TLC

\* ------------------------------------------------------------- bounds
MaxEpochs == 2
MaxTrain == 3
MaxValid == 2
MaxBatch == 2
MaxShift == 1
MaxDrop == 1
ThetaSpace == 8
MaxRecords == 44
MaxTokens == 22

\* ------------------------------------------------- program constants
OUTPUT_SIZE == 4
MAX_LEN == 20
TRAIN_ROWS == 1000
EVAL_ROWS == 300

Classes == 1 .. OUTPUT_SIZE

Min(a, b) == IF a < b THEN a ELSE b

\* ------------------------------------------------------------ tensors
\* The one-hot row of class c: a 1 in column c, 0 elsewhere.
OneHot(c) == [k \in Classes |-> IF k = c THEN 1 ELSE 0]

\* torch.argmax(v, dim=-1): the index of the first maximal entry.
ArgMax(v) ==
    CHOOSE i \in 1 .. Len(v) :
        /\ \A j \in 1 .. Len(v) : v[j] <= v[i]
        /\ \A j \in 1 .. (i - 1) : v[j] < v[i]

\* The class the classifier with weights w favours for input x.  Weights
\* below OUTPUT_SIZE give a constant predictor, the others depend on x.
Favoured(w, x) == (((w \div OUTPUT_SIZE) * x + w) % OUTPUT_SIZE) + 1

\* BERTClass.forward on a batch: one logit vector per example.  In training
\* mode the dropout layer perturbs the output (drop is the dropout draw);
\* in evaluation mode dropout is the identity.
Forward(w, training, drop, ids) ==
    [i \in 1 .. Len(ids) |->
        LET p == Favoured(IF training THEN w + drop ELSE w, ids[i])
        IN  [c \in Classes |-> IF c = p THEN 2 ELSE IF c > p THEN 1 ELSE 0]]

\* criterion(outputs, labels).item(): a non-negative number, here the count
\* of class positions of the batch on which the logit's side (above 1 or
\* not) and the label disagree.
RECURSIVE SumSeq(_)
SumSeq(s) == IF s = <<>> THEN 0 ELSE Head(s) + SumSeq(Tail(s))

Criterion(outputs, labels) ==
    SumSeq([i \in 1 .. Len(outputs) |->
        Cardinality({c \in Classes : (outputs[i][c] > 1) # (labels[i][c] = 1)})])

\* Mutant of CountCorrect: the logits compared with the one-hot rows without
\* taking the argmax of either.
CountCorrectRaw(outputs, labels) ==
    Cardinality({i \in 1 .. Len(outputs) : outputs[i] = labels[i]})

\* (pred == labels).sum().item() of lines 74-77 and 154-157.
CountCorrect(outputs, labels) ==
    Cardinality({i \in 1 .. Len(outputs) :
        ArgMax(outputs[i]) = ArgMax(labels[i])})

\* --------------------------------------------------------- DataLoader
\* len(loader) for batch_size bs, drop_last = False.
LoaderLen(n, bs) == (n + bs - 1) \div bs

\* The order in which one pass visits the n examples: the identity without
\* shuffle, otherwise a permutation, drawn here among the rotations.
Rotation(n, r) == [i \in 1 .. n |-> ((i - 1 + r) % n) + 1]

Orders(n, shuffle) ==
    IF shuffle THEN {Rotation(n, r) : r \in 0 .. Min(n - 1, MaxShift)}
    ELSE {Rotation(n, 0)}

\* The k-th batch (k = 1 .. LoaderLen) of a pass in the given order: the
\* collated ids and labels of its examples; the last batch may be short.
BatchIndices(ord, bs, k) ==
    SubSeq(ord, (k - 1) * bs + 1, Min(k * bs, Len(ord)))

Collate(dataset, idx) ==
    [ids |-> [j \in 1 .. Len(idx) |-> dataset[idx[j]].ids],
     labels |-> [j \in 1 .. Len(idx) |-> dataset[idx[j]].labels]]

\* A dataset of n encoded examples whose labels cycle through the classes.
MkDataset(n, off) ==
    [i \in 1 .. n |-> [ids |-> i, labels |-> OneHot(((i + off) % OUTPUT_SIZE) + 1)]]

NoBatch == [ids |-> <<>>, labels |-> <<>>]

\* -------------------------------------------------------------- state
VARIABLES
    pc,             \* position in the code
    num_epochs,     \* train_model argument
    batch_size,     \* train_model argument
    dataset_train, dataset_valid, dataset_test,
    theta,          \* the model's weights (model.state_dict())
    training,       \* the model's mode flag (model.training)
    grads,          \* the .grad buffers: the contributions accumulated
    opt_steps,      \* the optimizer's state: steps taken
    epoch,          \* loop variable of line 94, -1 before the loop
    ord,            \* order of the DataLoader pass in progress
    b,              \* batches drawn from the pass in progress
    data,           \* the batch as drawn (host)
    dev,            \* ids / labels after .to(device)
    outputs,        \* logits of the last forward pass
    loss,           \* loss of the training batch, or the running sum (57, 71)
    total, correct, \* counters of lines 58-59 and 142-143
    which,          \* the dataset argument of calculate_accuracy
    loader,         \* the DataLoader the evaluation in progress iterates
    ret,            \* pc to come back to when the evaluation returns
    metrics,        \* loss_train, acc_train, loss_valid, acc_valid (116-117)
    log_train, log_valid,
    files,          \* checkpoint files on disk: number in the name -> <<bundle>>
    result,         \* <<>>, then <<the dictionary train_model returned>>
    report,         \* accuracies printed by lines 226-228
    df,             \* the filtered table (line 171): rows in file order
    train, valid_test, valid, test,     \* the frames of lines 174-179
    y_train, y_valid, y_test,           \* the label matrices of lines 193-195
    item            \* the last __getitem__ call and what it returned

vars == <<pc, num_epochs, batch_size, dataset_train, dataset_valid, dataset_test,
          theta, training, grads, opt_steps, epoch, ord, b, data, dev, outputs,
          loss, total, correct, which, loader, ret, metrics, log_train, log_valid,
          files, result, report, df, train, valid_test, valid, test, y_train,
          y_valid, y_test, item>>

prep == <<df, train, valid_test, valid, test, y_train, y_valid, y_test, item>>
args == <<num_epochs, batch_size, dataset_train, dataset_valid, dataset_test>>
weights == <<theta, grads, opt_steps>>
locals == <<ord, b, data, dev, outputs, loss, total, correct>>
call == <<which, loader, ret>>
logs == <<log_train, log_valid>>

None == "None"
\* A file opened for writing whose bundle is not yet on disk.
Partial == <<>>

Dataset(p) ==
    CASE p = "train" -> dataset_train
      [] p = "valid" -> dataset_valid
      [] OTHER -> dataset_test

\* The data preparation has no part in the training specifications.
PrepIdle ==
    /\ df = <<>>
    /\ train = <<>>
    /\ valid_test = <<>>
    /\ valid = <<>>
    /\ test = <<>>
    /\ y_train = <<>>
    /\ y_valid = <<>>
    /\ y_test = <<>>
    /\ item = <<>>

\* The state of a run before any statement of interest has run.
Blank ==
    /\ grads = <<>>
    /\ opt_steps = 0
    /\ epoch = -1
    /\ ord = <<>>
    /\ b = 0
    /\ data = NoBatch
    /\ dev = NoBatch
    /\ outputs = <<>>
    /\ loss = None
    /\ total = 0
    /\ correct = 0
    /\ metrics = [p \in {"train", "valid"} |-> None]
    /\ log_train = <<>>
    /\ log_valid = <<>>
    /\ files = <<>>
    /\ result = <<>>
    /\ report = <<>>

\* __main__ up to line 223: a freshly constructed model is in training mode.
\* The datasets are non-empty: DataLoader rejects batch_size = len(dataset) = 0
\* (line 89) and loss / len(loader) (line 79) needs a batch.
Init ==
    /\ pc = "call"
    /\ num_epochs \in 0 .. MaxEpochs
    /\ batch_size \in 1 .. MaxBatch
    /\ \E n \in 1 .. MaxTrain : dataset_train = MkDataset(n, 0)
    /\ \E n \in 1 .. MaxValid :
        /\ dataset_valid = MkDataset(n, 1)
        /\ dataset_test = MkDataset(n, 2)
    /\ theta \in 0 .. 1
    /\ training = TRUE
    /\ which = None
    /\ loader = None
    /\ ret = None
    /\ Blank
    /\ PrepIdle

\* ------------------------------------------------ train_model, 82-133
\* Lines 88-89.
dataloader_train == [ds |-> "train", bs |-> batch_size, shuffle |-> TRUE]

dataloader_valid == [ds |-> "valid", bs |-> Len(dataset_valid), shuffle |-> FALSE]

\* Lines 85-93: the loaders are built and the logs start empty.
Enter ==
    /\ pc = "call"
    /\ log_train' = <<>>
    /\ log_valid' = <<>>
    /\ pc' = "for_epoch"
    /\ UNCHANGED <<prep, args, weights, training, epoch, locals, call, metrics, files,
                   result, report>>

\* Mutant of ForEpoch: early stopping once validation accuracy is perfect.
ForEpochEarlyStop ==
    /\ pc = "for_epoch"
    /\ IF /\ epoch + 1 < num_epochs
          /\ ~(/\ Len(log_valid) >= 1
               /\ log_valid[Len(log_valid)][2][1] = log_valid[Len(log_valid)][2][2])
       THEN /\ epoch' = epoch + 1
            /\ pc' = "model_train"
       ELSE /\ epoch' = epoch
            /\ pc' = "return"
    /\ UNCHANGED <<prep, args, weights, training, locals, call, metrics, logs, files,
                   result, report>>

\* Line 94: for epoch in range(num_epochs).
ForEpoch ==
    /\ pc = "for_epoch"
    /\ IF epoch + 1 < num_epochs
       THEN /\ epoch' = epoch + 1
            /\ pc' = "model_train"
       ELSE /\ epoch' = epoch
            /\ pc' = "return"
    /\ UNCHANGED <<prep, args, weights, training, locals, call, metrics, logs, files,
                   result, report>>

\* Mutant of ModelTrain: the call to model.train() left out.
ModelTrainSkipped ==
    /\ pc = "model_train"
    /\ pc' = "iter_train"
    /\ UNCHANGED <<prep, args, weights, training, epoch, locals, call, metrics, logs,
                   files, result, report>>

\* Line 99: model.train().
ModelTrain ==
    /\ pc = "model_train"
    /\ training' = TRUE
    /\ pc' = "iter_train"
    /\ UNCHANGED <<prep, args, weights, epoch, locals, call, metrics, logs, files,
                   result, report>>

\* Line 100, entering the loop: a new shuffled pass over dataloader_train.
IterTrain ==
    /\ pc = "iter_train"
    /\ ord' \in Orders(Len(dataset_train), dataloader_train.shuffle)
    /\ b' = 0
    /\ pc' = "for_batch"
    /\ UNCHANGED <<prep, args, weights, training, epoch, data, dev, outputs, loss,
                   total, correct, call, metrics, logs, files, result, report>>

\* Line 100: the next batch, or the end of the pass.
ForBatch ==
    /\ pc = "for_batch"
    /\ IF b < LoaderLen(Len(dataset_train), dataloader_train.bs)
       THEN /\ b' = b + 1
            /\ data' = Collate(dataset_train,
                               BatchIndices(ord, dataloader_train.bs, b + 1))
            /\ pc' = "to_device"
       ELSE /\ b' = b
            /\ data' = data
            /\ pc' = "eval_train"
    /\ UNCHANGED <<prep, args, weights, training, epoch, ord, dev, outputs, loss,
                   total, correct, call, metrics, logs, files, result, report>>

\* Lines 102-104.
ToDevice ==
    /\ pc = "to_device"
    /\ dev' = data
    /\ pc' = "zero_grad"
    /\ UNCHANGED <<prep, args, weights, training, epoch, ord, b, data, outputs, loss,
                   total, correct, call, metrics, logs, files, result, report>>

\* Mutant of ZeroGrad: the call to optimizer.zero_grad() left out.
ZeroGradSkipped ==
    /\ pc = "zero_grad"
    /\ pc' = "forward"
    /\ UNCHANGED <<prep, args, weights, training, epoch, locals, call, metrics, logs,
                   files, result, report>>

\* Line 107: optimizer.zero_grad().
ZeroGrad ==
    /\ pc = "zero_grad"
    /\ grads' = <<>>
    /\ pc' = "forward"
    /\ UNCHANGED <<prep, args, theta, opt_steps, training, epoch, locals, call, metrics,
                   logs, files, result, report>>

\* Line 110: outputs = model.forward(ids, mask).
TrainForward ==
    /\ pc = "forward"
    /\ \E drop \in 0 .. MaxDrop :
        outputs' = Forward(theta, training, drop, dev.ids)
    /\ pc' = "criterion"
    /\ UNCHANGED <<prep, args, weights, training, epoch, ord, b, data, dev, loss,
                   total, correct, call, metrics, logs, files, result, report>>

\* Line 111: loss = criterion(outputs, labels).
TrainLoss ==
    /\ pc = "criterion"
    /\ loss' = Criterion(outputs, dev.labels)
    /\ pc' = "backward"
    /\ UNCHANGED <<prep, args, weights, training, epoch, ord, b, data, dev, outputs,
                   total, correct, call, metrics, logs, files, result, report>>

\* Line 112: loss.backward() adds this batch's gradient to the buffers.
Backward ==
    /\ pc = "backward"
    /\ grads' = Append(grads, [epoch |-> epoch, batch |-> b, g |-> loss])
    /\ pc' = "step"
    /\ UNCHANGED <<prep, args, theta, opt_steps, training, epoch, locals, call, metrics,
                   logs, files, result, report>>

\* AdamW's update of the weights w from the gradient buffers gs.
Update(w, gs) == (w + 1 + SumSeq([i \in 1 .. Len(gs) |-> gs[i].g])) % ThetaSpace

\* Line 113: optimizer.step() moves the weights by what the buffers hold.
OptimizerStep ==
    /\ pc = "step"
    /\ theta' = Update(theta, grads)
    /\ opt_steps' = opt_steps + 1
    /\ pc' = "for_batch"
    /\ UNCHANGED <<prep, args, grads, training, epoch, locals, call, metrics, logs,
                   files, result, report>>

\* Line 116: calculate_loss_and_accuracy(model, criterion, dataloader_train, device).
CallEvalTrain ==
    /\ pc = "eval_train"
    /\ loader' = dataloader_train
    /\ ret' = "eval_valid"
    /\ pc' = "cl_eval"
    /\ UNCHANGED <<prep, args, weights, training, epoch, locals, which, metrics, logs,
                   files, result, report>>

\* Line 117: calculate_loss_and_accuracy(model, criterion, dataloader_valid, device).
CallEvalValid ==
    /\ pc = "eval_valid"
    /\ loader' = dataloader_valid
    /\ ret' = "append"
    /\ pc' = "cl_eval"
    /\ UNCHANGED <<prep, args, weights, training, epoch, locals, which, metrics, logs,
                   files, result, report>>

\* Lines 118-119: the two appends, one step; the logs are local to
\* train_model and nothing reads them in between.
AppendLogs ==
    /\ pc = "append"
    /\ log_train' = Append(log_train, metrics["train"])
    /\ log_valid' = Append(log_valid, metrics["valid"])
    /\ pc' = "save_open"
    /\ UNCHANGED <<prep, args, weights, training, epoch, locals, call, metrics, files,
                   result, report>>

\* Mutant of CheckpointName: the file named by the 0-based loop index.
CheckpointNameZeroBased(e) == e

\* Mutant of CheckpointName: one file name for every epoch.
CheckpointNameFixed(e) == 1

\* Line 124: the file name of this epoch's checkpoint, checkpoint{epoch + 1}.pt.
CheckpointName(e) == e + 1

\* Line 123: the saved bundle.
Bundle ==
    [epoch |-> epoch, model_state_dict |-> theta, optimizer_state_dict |-> opt_steps]

\* Lines 122-124, first half: torch.save opens (creates or truncates) the file.
SaveOpen ==
    /\ pc = "save_open"
    /\ files' = [n \in DOMAIN files \cup {CheckpointName(epoch)} |->
                    IF n = CheckpointName(epoch) THEN Partial ELSE files[n]]
    /\ pc' = "save_write"
    /\ UNCHANGED <<prep, args, weights, training, epoch, locals, call, metrics, logs,
                   result, report>>

\* Lines 122-124, second half: the bundle is serialized and the file closed.
SaveWrite ==
    /\ pc = "save_write"
    /\ files' = [files EXCEPT ![CheckpointName(epoch)] = <<Bundle>>]
    /\ pc' = "print"
    /\ UNCHANGED <<prep, args, weights, training, epoch, locals, call, metrics, logs,
                   result, report>>

\* Lines 127-131: the epoch's report line; the iteration ends.
PrintEpoch ==
    /\ pc = "print"
    /\ pc' = "for_epoch"
    /\ UNCHANGED <<prep, args, weights, training, epoch, locals, call, metrics, logs,
                   files, result, report>>

\* Line 133; the frame of train_model is discarded.
Return ==
    /\ pc = "return"
    /\ result' = <<[train |-> log_train, valid |-> log_valid]>>
    /\ ord' = <<>>
    /\ b' = 0
    /\ data' = NoBatch
    /\ dev' = NoBatch
    /\ outputs' = <<>>
    /\ loss' = None
    /\ pc' = "acc_train"
    /\ UNCHANGED <<prep, args, weights, training, epoch, total, correct, call, metrics,
                   logs, files, report>>

\* ------------------------------- calculate_loss_and_accuracy, 54-79
\* Mutant of CL_Enter: the call to model.eval() left out.
CL_EnterNoEval ==
    /\ pc = "cl_eval"
    /\ loss' = 0
    /\ total' = 0
    /\ correct' = 0
    /\ pc' = "cl_iter"
    /\ UNCHANGED <<prep, args, weights, training, epoch, ord, b, data, dev, outputs,
                   call, metrics, logs, files, result, report>>

\* Lines 56-59: model.eval() and the zeroed accumulators.
CL_Enter ==
    /\ pc = "cl_eval"
    /\ training' = FALSE
    /\ loss' = 0
    /\ total' = 0
    /\ correct' = 0
    /\ pc' = "cl_iter"
    /\ UNCHANGED <<prep, args, weights, epoch, ord, b, data, dev, outputs, call,
                   metrics, logs, files, result, report>>

\* Line 61, entering the loop: a new pass over the loader.
CL_Iter ==
    /\ pc = "cl_iter"
    /\ ord' \in Orders(Len(Dataset(loader.ds)), loader.shuffle)
    /\ b' = 0
    /\ pc' = "cl_for"
    /\ UNCHANGED <<prep, args, weights, training, epoch, data, dev, outputs, loss,
                   total, correct, call, metrics, logs, files, result, report>>

\* Line 61: the next batch, or the end of the pass.
CL_For ==
    /\ pc = "cl_for"
    /\ IF b < LoaderLen(Len(Dataset(loader.ds)), loader.bs)
       THEN /\ b' = b + 1
            /\ data' = Collate(Dataset(loader.ds),
                               BatchIndices(ord, loader.bs, b + 1))
            /\ pc' = "cl_to_device"
       ELSE /\ b' = b
            /\ data' = data
            /\ pc' = "cl_return"
    /\ UNCHANGED <<prep, args, weights, training, epoch, ord, dev, outputs, loss,
                   total, correct, call, metrics, logs, files, result, report>>

\* Lines 63-65.
CL_ToDevice ==
    /\ pc = "cl_to_device"
    /\ dev' = data
    /\ pc' = "cl_forward"
    /\ UNCHANGED <<prep, args, weights, training, epoch, ord, b, data, outputs, loss,
                   total, correct, call, metrics, logs, files, result, report>>

\* Line 68, under torch.no_grad().
CL_Forward ==
    /\ pc = "cl_forward"
    /\ \E drop \in 0 .. MaxDrop :
        outputs' = Forward(theta, training, drop, dev.ids)
    /\ pc' = "cl_accum"
    /\ UNCHANGED <<prep, args, weights, training, epoch, ord, b, data, dev, loss,
                   total, correct, call, metrics, logs, files, result, report>>

\* Lines 71-77.
CL_Accum ==
    /\ pc = "cl_accum"
    /\ loss' = loss + Criterion(outputs, dev.labels)
    /\ total' = total + Len(dev.labels)
    /\ correct' = correct + CountCorrect(outputs, dev.labels)
    /\ pc' = "cl_for"
    /\ UNCHANGED <<prep, args, weights, training, epoch, ord, b, data, dev, outputs,
                   call, metrics, logs, files, result, report>>

\* Line 79: return loss / len(loader), correct / total; the frame is discarded.
CL_Return ==
    /\ pc = "cl_return"
    /\ metrics' = [metrics EXCEPT ![loader.ds] =
            <<<<loss, LoaderLen(Len(Dataset(loader.ds)), loader.bs)>>,
              <<correct, total>>>>]
    /\ pc' = ret
    /\ ord' = <<>>
    /\ b' = 0
    /\ data' = NoBatch
    /\ dev' = NoBatch
    /\ outputs' = <<>>
    /\ loss' = None
    /\ total' = 0
    /\ correct' = 0
    /\ UNCHANGED <<prep, args, weights, training, epoch, call, logs, files, result,
                   report>>

\* ----------------------------------------- calculate_accuracy, 137-159
\* Lines 226-228: the three calls of __main__.
CallAccuracy(at, p, next) ==
    /\ pc = at
    /\ which' = p
    /\ ret' = next
    /\ pc' = "ca_loader"
    /\ UNCHANGED <<prep, args, weights, training, epoch, locals, loader, metrics, logs,
                   files, result, report>>

CallAccTrain == CallAccuracy("acc_train", "train", "acc_valid")

CallAccValid == CallAccuracy("acc_valid", "valid", "acc_test")

CallAccTest == CallAccuracy("acc_test", "test", "exit")

\* Line 139: one batch holding the whole dataset, in order.
CA_Loader ==
    /\ pc = "ca_loader"
    /\ loader' = [ds |-> which, bs |-> Len(Dataset(which)), shuffle |-> FALSE]
    /\ pc' = "ca_eval"
    /\ UNCHANGED <<prep, args, weights, training, epoch, locals, which, ret, metrics,
                   logs, files, result, report>>

\* Lines 141-143.
CA_Enter ==
    /\ pc = "ca_eval"
    /\ training' = FALSE
    /\ total' = 0
    /\ correct' = 0
    /\ pc' = "ca_iter"
    /\ UNCHANGED <<prep, args, weights, epoch, ord, b, data, dev, outputs, loss, call,
                   metrics, logs, files, result, report>>

\* Line 145, entering the loop.
CA_Iter ==
    /\ pc = "ca_iter"
    /\ ord' \in Orders(Len(Dataset(loader.ds)), loader.shuffle)
    /\ b' = 0
    /\ pc' = "ca_for"
    /\ UNCHANGED <<prep, args, weights, training, epoch, data, dev, outputs, loss,
                   total, correct, call, metrics, logs, files, result, report>>

\* Line 145.
CA_For ==
    /\ pc = "ca_for"
    /\ IF b < LoaderLen(Len(Dataset(loader.ds)), loader.bs)
       THEN /\ b' = b + 1
            /\ data' = Collate(Dataset(loader.ds),
                               BatchIndices(ord, loader.bs, b + 1))
            /\ pc' = "ca_to_device"
       ELSE /\ b' = b
            /\ data' = data
            /\ pc' = "ca_return"
    /\ UNCHANGED <<prep, args, weights, training, epoch, ord, dev, outputs, loss,
                   total, correct, call, metrics, logs, files, result, report>>

\* Lines 147-149.
CA_ToDevice ==
    /\ pc = "ca_to_device"
    /\ dev' = data
    /\ pc' = "ca_forward"
    /\ UNCHANGED <<prep, args, weights, training, epoch, ord, b, data, outputs, loss,
                   total, correct, call, metrics, logs, files, result, report>>

\* Line 153, under torch.no_grad().
CA_Forward ==
    /\ pc = "ca_forward"
    /\ \E drop \in 0 .. MaxDrop :
        outputs' = Forward(theta, training, drop, dev.ids)
    /\ pc' = "ca_accum"
    /\ UNCHANGED <<prep, args, weights, training, epoch, ord, b, data, dev, loss,
                   total, correct, call, metrics, logs, files, result, report>>

\* Lines 154-157.
CA_Accum ==
    /\ pc = "ca_accum"
    /\ total' = total + Len(dev.labels)
    /\ correct' = correct + CountCorrect(outputs, dev.labels)
    /\ pc' = "ca_for"
    /\ UNCHANGED <<prep, args, weights, training, epoch, ord, b, data, dev, outputs,
                   loss, call, metrics, logs, files, result, report>>

\* Line 159: return correct / total, printed by the caller.
CA_Return ==
    /\ pc = "ca_return"
    /\ report' = Append(report, [ds |-> which, accuracy |-> <<correct, total>>])
    /\ pc' = ret
    /\ ord' = <<>>
    /\ b' = 0
    /\ data' = NoBatch
    /\ dev' = NoBatch
    /\ outputs' = <<>>
    /\ total' = 0
    /\ correct' = 0
    /\ UNCHANGED <<prep, args, weights, training, epoch, loss, call, metrics, logs,
                   files, result>>

Evaluate ==
    \/ CL_Enter \/ CL_Iter \/ CL_For \/ CL_ToDevice \/ CL_Forward \/ CL_Accum
    \/ CL_Return
    \/ CA_Loader \/ CA_Enter \/ CA_Iter \/ CA_For \/ CA_ToDevice \/ CA_Forward
    \/ CA_Accum \/ CA_Return

Next ==
    \/ Enter \/ ForEpoch \/ ModelTrain \/ IterTrain \/ ForBatch \/ ToDevice
    \/ ZeroGrad \/ TrainForward \/ TrainLoss \/ Backward \/ OptimizerStep
    \/ CallEvalTrain \/ CallEvalValid \/ AppendLogs \/ SaveOpen \/ SaveWrite
    \/ PrintEpoch \/ Return
    \/ CallAccTrain \/ CallAccValid \/ CallAccTest
    \/ Evaluate

Spec == Init /\ [][Next]_vars

\* ----------------------------------------------- the evaluators alone
\* One call of calculate_loss_and_accuracy (on any loader over the dataset)
\* or of calculate_accuracy, for any labelling of the dataset, any weights
\* and either mode on entry.
InitEval ==
    /\ Blank
    /\ PrepIdle
    /\ num_epochs = 0
    /\ batch_size = 1
    /\ \E n \in 1 .. MaxTrain : \E lab \in [1 .. n -> Classes] :
        dataset_train = [i \in 1 .. n |-> [ids |-> i, labels |-> OneHot(lab[i])]]
    /\ dataset_valid = MkDataset(1, 0)
    /\ dataset_test = MkDataset(1, 0)
    /\ theta \in 0 .. (ThetaSpace - 1)
    /\ training \in BOOLEAN
    /\ \/ /\ pc = "cl_eval"
          /\ \E bs \in 1 .. (MaxBatch + 1) : \E sh \in BOOLEAN :
                loader = [ds |-> "train", bs |-> bs, shuffle |-> sh]
          /\ which = None
       \/ /\ pc = "ca_loader"
          /\ which = "train"
          /\ loader = None
    /\ ret = "probed"

SpecEval ==
    /\ InitEval
    /\ [][Evaluate]_vars

\* The loop runs to the end: nothing in the code waits or can be starved.
FairSpec == Spec /\ WF_vars(Next)

\* =============================================== __main__, 165-205
\* Every variable of the training run, idle while the data is prepared.
run == <<num_epochs, batch_size, theta, training, grads, opt_steps, epoch, ord,
         b, data, dev, outputs, loss, total, correct, which, loader, ret,
         metrics, log_train, log_valid, files, result, report>>

\* The class letters of the corpus, in the order they cycle through a table.
FileCategories == <<"b", "t", "e", "m">>

\* A filtered table of n rows over the first k categories.  Each row keeps
\* the index label .loc left it with (gaps where rows were filtered out), a
\* title of some number of word pieces, and its category; row is the
\* record's identity in the corpus, which no statement reads.
MkTable(n, k) ==
    [i \in 1 .. n |->
        [row |-> i, index |-> i + i, TITLE |-> i % (MaxTokens + 1),
         CATEGORY |-> FileCategories[((i - 1) % k) + 1]]]

\* test_size of lines 174 and 175, as fractions.
TEST_SIZE_1 == <<1, 5>>

TEST_SIZE_2 == <<1, 2>>

CategoriesOf(frame) == {frame[i].CATEGORY : i \in 1 .. Len(frame)}

\* train_test_split(frame, test_size = ts, shuffle = True, stratify = CATEGORY):
\* n_test = ceil(ts * n), n_train = n - n_test; it raises when a part would be
\* empty, when a class has fewer than 2 members or when a part is smaller
\* than the number of classes.  Which rows go where is the shuffle's choice,
\* drawn here among the rotations of the frame (r).
TrainTestSplit(frame, ts, r) ==
    LET n == Len(frame)
        n_test == (ts[1] * n + ts[2] - 1) \div ts[2]
        n_train == n - n_test
        classes == CategoriesOf(frame)
        perm == Rotation(n, r)
    IN  [ok |-> /\ n_train > 0
                /\ n_test > 0
                /\ \A c \in classes :
                    Cardinality({i \in 1 .. n : frame[i].CATEGORY = c}) >= 2
                /\ n_train >= Cardinality(classes)
                /\ n_test >= Cardinality(classes),
         train |-> [j \in 1 .. n_train |-> frame[perm[n_test + j]]],
         test |-> [j \in 1 .. n_test |-> frame[perm[j]]]]

Shifts(n) == 0 .. Min(n - 1, MaxShift)

\* Line 174.
Split1 ==
    /\ pc = "split_1"
    /\ \E r \in Shifts(Len(df)) :
        LET s == TrainTestSplit(df, TEST_SIZE_1, r)
        IN  IF s.ok
            THEN /\ train' = s.train
                 /\ valid_test' = s.test
                 /\ pc' = "split_2"
            ELSE /\ pc' = "raised"
                 /\ UNCHANGED <<train, valid_test>>
    /\ UNCHANGED <<run, dataset_train, dataset_valid, dataset_test, df, valid,
                   test, y_train, y_valid, y_test, item>>

\* Mutant of Split2: the second split taken from the table, not from the
\* held-out part.
Split2OfTable ==
    /\ pc = "split_2"
    /\ \E r \in Shifts(Len(df)) :
        LET s == TrainTestSplit(df, TEST_SIZE_2, r)
        IN  IF s.ok
            THEN /\ valid' = s.train
                 /\ test' = s.test
                 /\ pc' = "reset_index"
            ELSE /\ pc' = "raised"
                 /\ UNCHANGED <<valid, test>>
    /\ UNCHANGED <<run, dataset_train, dataset_valid, dataset_test, df, train,
                   valid_test, y_train, y_valid, y_test, item>>

\* Lines 175-176.
Split2 ==
    /\ pc = "split_2"
    /\ \E r \in Shifts(Len(valid_test)) :
        LET s == TrainTestSplit(valid_test, TEST_SIZE_2, r)
        IN  IF s.ok
            THEN /\ valid' = s.train
                 /\ test' = s.test
                 /\ pc' = "reset_index"
            ELSE /\ pc' = "raised"
                 /\ UNCHANGED <<valid, test>>
    /\ UNCHANGED <<run, dataset_train, dataset_valid, dataset_test, df, train,
                   valid_test, y_train, y_valid, y_test, item>>

\* reset_index(drop = True): the labels become 0, 1, 2, ...
ResetFrame(frame) == [i \in 1 .. Len(frame) |-> [frame[i] EXCEPT !.index = i - 1]]

\* Lines 177-179.
ResetIndex ==
    /\ pc = "reset_index"
    /\ train' = ResetFrame(train)
    /\ valid' = ResetFrame(valid)
    /\ test' = ResetFrame(test)
    /\ pc' = "encode_train"
    /\ UNCHANGED <<run, dataset_train, dataset_valid, dataset_test, df,
                   valid_test, y_train, y_valid, y_test, item>>

\* Mutant of ValidColumns: the columns in the order get_dummies makes them.
ValidColumnsSorted == <<"b", "e", "m", "t">>

\* The column lists of lines 193, 194 and 195 (CATEGORY_b, ...).
TrainColumns == <<"b", "e", "t", "m">>

ValidColumns == <<"b", "e", "t", "m">>

TestColumns == <<"b", "e", "t", "m">>

\* pd.get_dummies(frame, columns = ['CATEGORY'])[cols].values: one indicator
\* column per category present in the frame; selecting a column that is not
\* there raises KeyError.
HasColumns(frame, cols) ==
    \A j \in 1 .. Len(cols) : cols[j] \in CategoriesOf(frame)

GetDummies(frame, cols) ==
    [i \in 1 .. Len(frame) |->
        [j \in 1 .. Len(cols) |-> IF frame[i].CATEGORY = cols[j] THEN 1 ELSE 0]]

\* Line 193.
EncodeTrain ==
    /\ pc = "encode_train"
    /\ IF HasColumns(train, TrainColumns)
       THEN /\ y_train' = GetDummies(train, TrainColumns)
            /\ pc' = "encode_valid"
       ELSE /\ pc' = "raised"
            /\ UNCHANGED y_train
    /\ UNCHANGED <<run, dataset_train, dataset_valid, dataset_test, df, train,
                   valid_test, valid, test, y_valid, y_test, item>>

\* Line 194.
EncodeValid ==
    /\ pc = "encode_valid"
    /\ IF HasColumns(valid, ValidColumns)
       THEN /\ y_valid' = GetDummies(valid, ValidColumns)
            /\ pc' = "encode_test"
       ELSE /\ pc' = "raised"
            /\ UNCHANGED y_valid
    /\ UNCHANGED <<run, dataset_train, dataset_valid, dataset_test, df, train,
                   valid_test, valid, test, y_train, y_test, item>>

\* Line 195.
EncodeTest ==
    /\ pc = "encode_test"
    /\ IF HasColumns(test, TestColumns)
       THEN /\ y_test' = GetDummies(test, TestColumns)
            /\ pc' = "datasets"
       ELSE /\ pc' = "raised"
            /\ UNCHANGED y_test
    /\ UNCHANGED <<run, dataset_train, dataset_valid, dataset_test, df, train,
                   valid_test, valid, test, y_train, y_valid, item>>

Take(s, k) == SubSeq(s, 1, Min(Len(s), k))

\* frame['TITLE']: the titles under the frame's index labels.
TitleColumn(frame) ==
    [i \in 1 .. Len(frame) |-> [index |-> frame[i].index, TITLE |-> frame[i].TITLE]]

\* CreateDataset.__init__, lines 13-17.
CreateDataset(X, y, max_len) == [X |-> X, y |-> y, max_len |-> max_len]

\* Lines 198-202.
CreateDatasets ==
    /\ pc = "datasets"
    /\ dataset_train' = CreateDataset(Take(TitleColumn(train), TRAIN_ROWS),
                                      Take(y_train, TRAIN_ROWS), MAX_LEN)
    /\ dataset_valid' = CreateDataset(Take(TitleColumn(valid), EVAL_ROWS),
                                      Take(y_valid, EVAL_ROWS), MAX_LEN)
    /\ dataset_test' = CreateDataset(Take(TitleColumn(test), EVAL_ROWS),
                                     Take(y_test, EVAL_ROWS), MAX_LEN)
    /\ pc' = "ready"
    /\ UNCHANGED <<run, df, train, valid_test, valid, test, y_train, y_valid,
                   y_test, item>>

\* The tokenizer: a title is the number of its word pieces.
Tokenize(text) == [j \in 1 .. text |-> "w"]

WithSpecial(words) == <<"[CLS]">> \o words \o <<"[SEP]">>

PadTo(seq, max_length, fill) ==
    seq \o [j \in 1 .. (max_length - Len(seq)) |-> fill]

\* Mutant of EncodePlus: padding without truncation.
EncodePlusNoTruncation(text, max_length) ==
    LET ids == WithSpecial(Tokenize(text))
    IN  [input_ids |-> PadTo(ids, max_length, "[PAD]"),
         attention_mask |-> PadTo([j \in 1 .. Len(ids) |-> 1], max_length, 0)]

\* tokenizer.encode_plus(text, add_special_tokens = True, max_length,
\* pad_to_max_length = True), lines 24-29: the word pieces are cut from the
\* end until they fit with [CLS] and [SEP], then padded on the right.
EncodePlus(text, max_length) ==
    LET words == Tokenize(text)
        room == max_length - Len(WithSpecial(<<>>))
        kept == IF Len(words) > room THEN SubSeq(words, 1, room) ELSE words
        ids == WithSpecial(kept)
    IN  [input_ids |-> PadTo(ids, max_length, "[PAD]"),
         attention_mask |-> PadTo([j \in 1 .. Len(ids) |-> 1], max_length, 0)]

\* len(dataset), lines 19-20.
DatasetLen(ds) == Len(ds.y)

\* self.X[index], line 23: the title under index label index.
HasLabel(X, index) == \E i \in 1 .. Len(X) : X[i].index = index

AtLabel(X, index) == X[CHOOSE i \in 1 .. Len(X) : X[i].index = index].TITLE

\* CreateDataset.__getitem__, lines 22-37.
GetItemOf(ds, index) ==
    LET inputs == EncodePlus(AtLabel(ds.X, index), ds.max_len)
    IN  [ids |-> inputs.input_ids,
         mask |-> inputs.attention_mask,
         labels |-> ds.y[index + 1]]

\* dataset[index] for any of the three datasets and any valid index (line
\* 204 and every DataLoader pass).
GetItem ==
    /\ pc = "ready"
    /\ \E p \in {"train", "valid", "test"} :
        \E index \in 0 .. (DatasetLen(Dataset(p)) - 1) :
            IF HasLabel(Dataset(p).X, index)
            THEN /\ item' = <<[ds |-> p, index |-> index,
                               value |-> GetItemOf(Dataset(p), index)]>>
                 /\ pc' = "ready"
            ELSE /\ pc' = "raised"
                 /\ UNCHANGED item
    /\ UNCHANGED <<run, dataset_train, dataset_valid, dataset_test, df, train,
                   valid_test, valid, test, y_train, y_valid, y_test>>

InitPrep ==
    /\ pc = "split_1"
    /\ \E n \in 1 .. MaxRecords : \E k \in 1 .. Len(FileCategories) :
        df = MkTable(n, k)
    /\ train = <<>>
    /\ valid_test = <<>>
    /\ valid = <<>>
    /\ test = <<>>
    /\ y_train = <<>>
    /\ y_valid = <<>>
    /\ y_test = <<>>
    /\ item = <<>>
    /\ dataset_train = <<>>
    /\ dataset_valid = <<>>
    /\ dataset_test = <<>>
    /\ num_epochs = 0
    /\ batch_size = 1
    /\ theta = 0
    /\ training = TRUE
    /\ which = None
    /\ loader = None
    /\ ret = None
    /\ Blank

NextPrep ==
    \/ Split1 \/ Split2 \/ ResetIndex \/ EncodeTrain \/ EncodeValid \/ EncodeTest
    \/ CreateDatasets \/ GetItem

SpecPrep == InitPrep /\ [][NextPrep]_vars

\* ================================================== properties, Spec
\* Batches of one pass over dataloader_train.
TrainBatches == LoaderLen(Len(dataset_train), batch_size)

Returned == result # <<>>

TrainPcs ==
    {"iter_train", "for_batch", "to_device", "zero_grad", "forward",
     "criterion", "backward", "step"}

CLPcs ==
    {"cl_eval", "cl_iter", "cl_for", "cl_to_device", "cl_forward", "cl_accum",
     "cl_return"}

CAPcs ==
    {"ca_loader", "ca_eval", "ca_iter", "ca_for", "ca_to_device", "ca_forward",
     "ca_accum", "ca_return"}

\* Positions inside an iteration of the epoch loop, up to the end of the save.
InEpochPcs ==
    TrainPcs \cup {"model_train", "eval_train", "eval_valid", "append",
                   "save_open", "save_write"}

InEpoch == pc \in InEpochPcs \/ (pc \in CLPcs /\ ret \in {"eval_valid", "append"})

IsFraction(q) == Len(q) = 2 /\ q[1] \in Nat /\ q[2] \in Nat \ {0}

IsEntry(e) == Len(e) = 2 /\ IsFraction(e[1]) /\ IsFraction(e[2])

\* ---- C1
C1_LogsInStep ==
    /\ Len(log_train) = Len(log_valid)
    /\ Len(log_train) <= num_epochs
    /\ \A i \in 1 .. Len(log_train) : IsEntry(log_train[i]) /\ IsEntry(log_valid[i])
    /\ Returned =>
        /\ epoch + 1 = num_epochs
        /\ result[1].train = log_train
        /\ result[1].valid = log_valid
        /\ Len(result[1].train) = num_epochs
        /\ Len(result[1].valid) = num_epochs

C1_LogsGrow ==
    \/ UNCHANGED logs
    \/ /\ Len(log_train) = epoch
       /\ Len(log_train') = Len(log_train) + 1
       /\ Len(log_valid') = Len(log_valid) + 1
       /\ SubSeq(log_train', 1, Len(log_train)) = log_train
       /\ SubSeq(log_valid', 1, Len(log_valid)) = log_valid

Complete(n) == n \in DOMAIN files /\ files[n] # Partial

C2_Files ==
    /\ DOMAIN files \subseteq 1 .. num_epochs
    /\ \A n \in DOMAIN files : Complete(n) =>
        /\ files[n][1].epoch = n - 1
        /\ DOMAIN files[n][1] = {"epoch", "model_state_dict", "optimizer_state_dict"}
    /\ Cardinality(DOMAIN files) =
            IF InEpoch /\ pc # "save_write" THEN epoch ELSE epoch + 1
    /\ Returned => /\ DOMAIN files = 1 .. num_epochs
                   /\ \A n \in 1 .. num_epochs : Complete(n)

C2_Writes ==
    \/ UNCHANGED files
    \/ /\ pc = "save_open"
       /\ (epoch + 1) \notin DOMAIN files
       /\ DOMAIN files' = DOMAIN files \cup {epoch + 1}
       /\ \A n \in DOMAIN files : files'[n] = files[n]
    \/ /\ pc = "save_write"
       /\ ~Complete(epoch + 1)
       /\ DOMAIN files' = DOMAIN files
       /\ \A n \in DOMAIN files \ {epoch + 1} : files'[n] = files[n]
       /\ files'[epoch + 1] = <<[epoch |-> epoch, model_state_dict |-> theta,
                                 optimizer_state_dict |-> opt_steps]>>

\* C2: the iteration with loop index e writes exactly one checkpoint, the file
\* numbered e + 1, holding e, the model state and the optimizer state; after
\* N epochs exactly the files 1..N exist and no name was written twice.
C2_OneCheckpointPerEpoch ==
    /\ [](C2_Files)
    /\ [][C2_Writes]_vars

C2_Witness ==
    /\ pc = "exit"
    /\ num_epochs = 2
    /\ Complete(1) /\ Complete(2)
    /\ files[2][1].epoch = 1

\* ---- C3
\* Epochs whose iteration has finished everything up to its checkpoint.
EpochsCompleted == IF InEpoch THEN epoch ELSE epoch + 1

\* C3: whenever the process may be killed, the complete checkpoints on disk
\* are exactly those of the epochs completed so far, checkpoint k holds the
\* state after all the optimizer steps of epoch k and before any of epoch
\* k + 1, and no checkpoint exists for an epoch still training or evaluating
\* (a file being written belongs to the epoch whose evaluation has ended).
C3_LastDurableState ==
    /\ {n \in DOMAIN files : Complete(n)} = 1 .. EpochsCompleted
    /\ \A n \in DOMAIN files : ~Complete(n) =>
            /\ pc = "save_write"
            /\ n = EpochsCompleted + 1
    /\ DOMAIN files \subseteq 1 .. Len(log_train)
    /\ \A n \in DOMAIN files : Complete(n) =>
            files[n][1].optimizer_state_dict = n * TrainBatches
    /\ (EpochsCompleted >= 1 /\ opt_steps = EpochsCompleted * TrainBatches) =>
            /\ files[EpochsCompleted][1].model_state_dict = theta
            /\ files[EpochsCompleted][1].optimizer_state_dict = opt_steps

C3_Witness ==
    /\ pc = "save_write"
    /\ epoch = 1
    /\ Complete(1)
    /\ ~Complete(2)
    /\ files[1][1].model_state_dict # theta

\* ---- C8
\* C8: in every epoch the model is in training mode from before the first
\* training batch through every optimizer step, evaluation starts only after
\* all training batches of the epoch, and every forward pass behind a logged
\* metric runs in evaluation mode.
C8_ModeFollowsPhase ==
    /\ pc \in TrainPcs => training
    /\ pc \in TrainPcs \ {"iter_train"} =>
            opt_steps < (epoch + 1) * TrainBatches \/ pc = "for_batch"
    /\ (pc \in {"eval_train", "eval_valid", "append"} \/ (pc \in CLPcs /\ InEpoch)) =>
            opt_steps = (epoch + 1) * TrainBatches
    /\ (pc \in CLPcs \ {"cl_eval"} /\ InEpoch) => ~training
    /\ pc = "append" => ~training

C8_Witness ==
    /\ epoch >= 1
    /\ pc = "step"
    /\ training
    /\ Len(log_train) = epoch

\* ---- C9
C9_BatchState ==
    /\ pc \in {"to_device", "zero_grad", "forward", "criterion", "backward", "step"} =>
        /\ data = Collate(dataset_train, BatchIndices(ord, batch_size, b))
        /\ opt_steps = epoch * TrainBatches + (b - 1)
    /\ pc \in {"zero_grad", "forward", "criterion", "backward", "step"} => dev = data
    /\ pc \in {"forward", "criterion", "backward"} => grads = <<>>
    /\ pc \in {"criterion", "backward", "step"} =>
        \E drop \in 0 .. MaxDrop : outputs = Forward(theta, TRUE, drop, dev.ids)
    /\ pc \in {"backward", "step"} => loss = Criterion(outputs, dev.labels)
    /\ pc = "step" => grads = <<[epoch |-> epoch, batch |-> b, g |-> loss]>>
    /\ pc = "for_batch" => opt_steps = epoch * TrainBatches + b

C9_BatchOrder ==
    /\ pc = "to_device" => pc' = "zero_grad"
    /\ pc = "zero_grad" => pc' = "forward"
    /\ pc = "forward" => pc' = "criterion"
    /\ pc = "criterion" => pc' = "backward"
    /\ pc = "backward" => pc' = "step"
    /\ pc = "step" => pc' = "for_batch" /\ opt_steps' = opt_steps + 1
    /\ opt_steps' # opt_steps => pc = "step"

\* C9: each training batch goes through: to device, zero the gradients,
\* forward, loss, backward, optimizer step; one step per batch, taken on the
\* gradient of that batch alone.
C9_StepPerBatch ==
    /\ [](C9_BatchState)
    /\ [][C9_BatchOrder]_vars

C9_Witness ==
    /\ pc = "step"
    /\ epoch = 1
    /\ b = 2
    /\ Len(grads) = 1

\* ---- C10
\* What the evaluators must leave alone.
C10_Frame ==
    (pc \in CLPcs \cup CAPcs) =>
        UNCHANGED <<theta, grads, opt_steps, log_train, log_valid, files>>

C10_LeavesEval ==
    (pc \in {"cl_return", "ca_return"}) => ~training /\ ~training'

\* C10 as stated: the evaluators change nothing but the mode flag, leave it
\* in evaluation mode, and so train_model returns in evaluation mode.
C10_Original ==
    [][/\ C10_Frame
       /\ C10_LeavesEval
       /\ pc = "return" => ~training']_vars

\* C10 amended: as above, but train_model returns in evaluation mode only
\* when it ran at least one epoch; with num_epochs = 0 the evaluators are
\* never called and the mode is the one the caller left.
C10_FrameAndMode ==
    [][/\ C10_Frame
       /\ C10_LeavesEval
       /\ (pc = "return" /\ num_epochs >= 1) => ~training'
       /\ (pc = "return" /\ num_epochs = 0) => UNCHANGED training]_vars

C10_Witness ==
    /\ pc = "exit"
    /\ num_epochs >= 1
    /\ Len(report) = 3
    /\ ~training
    /\ opt_steps > 0

\* ============================================== properties, SpecEval
\* The class of example i by the claim's words: the class with the highest
\* logit of the model in evaluation mode, and the column holding the 1.
RefPredicted(i) ==
    LET o == Forward(theta, FALSE, 0, <<dataset_train[i].ids>>)[1]
    IN  CHOOSE c \in Classes : \A k \in Classes \ {c} : o[k] < o[c]

RefLabel(i) == CHOOSE c \in Classes : dataset_train[i].labels[c] = 1

RefCorrect ==
    Cardinality({i \in 1 .. Len(dataset_train) : RefPredicted(i) = RefLabel(i)})

\* The accuracy the probed call returned, as <<correct, total>>.
ProbedAccuracy == IF which = None THEN metrics["train"][2] ELSE report[1].accuracy

\* C4: the accuracy returned by either evaluator is the number of examples
\* whose highest-logit class is the class of their label over the number of
\* examples, each counted once; it lies in [0, 1], and for a model predicting
\* one class c everywhere it is the share of c in the dataset.
C4_AccuracyIsMatchRatio ==
    pc = "probed" =>
        LET a == ProbedAccuracy
            n == Len(dataset_train)
        IN  /\ a[2] = n
            /\ a[1] = RefCorrect
            /\ 0 <= a[1] /\ a[1] <= a[2]
            /\ \A c \in Classes :
                (\A i \in 1 .. n : RefPredicted(i) = c) =>
                    a[1] * n = Cardinality({i \in 1 .. n : RefLabel(i) = c}) * a[2]

C4_Witness ==
    /\ pc = "probed"
    /\ which = None
    /\ loader.shuffle
    /\ loader.bs < Len(dataset_train)
    /\ Len(dataset_train) % loader.bs # 0
    /\ theta < OUTPUT_SIZE
    /\ 0 < ProbedAccuracy[1]
    /\ ProbedAccuracy[1] < ProbedAccuracy[2]

\* ============================================== properties, SpecPrep
Rows(f) == {f[i].row : i \in 1 .. Len(f)}

Abs(x) == IF x < 0 THEN -x ELSE x

\* Both splits have succeeded.
SplitDone == test # <<>>

\* C5: the two-stage split gives train, valid and test that are pairwise
\* disjoint, hold every record of the table exactly once, and have sizes
\* within 1 of 0.8 n, 0.1 n and 0.1 n.
C5_SplitPartitions ==
    SplitDone =>
        LET n == Len(df)
        IN  /\ Rows(train) \cap Rows(valid) = {}
            /\ Rows(train) \cap Rows(test) = {}
            /\ Rows(valid) \cap Rows(test) = {}
            /\ Rows(train) \cup Rows(valid) \cup Rows(test) = Rows(df)
            /\ Len(train) + Len(valid) + Len(test) = n
            /\ Cardinality(Rows(train)) = Len(train)
            /\ Cardinality(Rows(valid)) = Len(valid)
            /\ Cardinality(Rows(test)) = Len(test)
            /\ Abs(5 * Len(train) - 4 * n) <= 5
            /\ Abs(10 * Len(valid) - n) <= 10
            /\ Abs(10 * Len(test) - n) <= 10

C5_Witness ==
    /\ SplitDone
    /\ pc = "ready"
    /\ Cardinality(CategoriesOf(df)) = OUTPUT_SIZE
    /\ 5 * Len(train) # 4 * Len(df)
    /\ Len(valid) # Len(test)

IsOneHot(v) ==
    /\ \A j \in 1 .. Len(v) : v[j] \in {0, 1}
    /\ Cardinality({j \in 1 .. Len(v) : v[j] = 1}) = 1
    /\ SumSeq(v) = 1

\* The partitions whose label matrix has been built, each with its matrix.
Encoded ==
    {e \in {[f |-> train, y |-> y_train], [f |-> valid, y |-> y_valid],
            [f |-> test, y |-> y_test]} : e.y # <<>>}

\* C6: every label vector of every partition has exactly one 1 and sums to
\* 1, and the class columns are the same, in the same order b, e, t, m, for
\* the three partitions: a category has the same column everywhere.
C6_OneHotSameColumns ==
    /\ \A e \in Encoded :
        /\ Len(e.y) = Len(e.f)
        /\ \A i \in 1 .. Len(e.y) :
            /\ Len(e.y[i]) = OUTPUT_SIZE
            /\ IsOneHot(e.y[i])
            /\ e.y[i][1] = 1 <=> e.f[i].CATEGORY = "b"
            /\ e.y[i][2] = 1 <=> e.f[i].CATEGORY = "e"
            /\ e.y[i][3] = 1 <=> e.f[i].CATEGORY = "t"
            /\ e.y[i][4] = 1 <=> e.f[i].CATEGORY = "m"
    /\ \A e1 \in Encoded : \A e2 \in Encoded :
        \A i \in 1 .. Len(e1.y) : \A j \in 1 .. Len(e2.y) :
            (e1.f[i].CATEGORY = e2.f[j].CATEGORY) <=> (e1.y[i] = e2.y[j])

C6_Witness ==
    /\ pc = "ready"
    /\ Cardinality(Encoded) = 3
    /\ \E i \in 1 .. Len(y_valid) : valid[i].CATEGORY = "t" /\ y_valid[i][3] = 1
    /\ \E i \in 1 .. Len(y_test) : test[i].CATEGORY = "m" /\ y_test[i][4] = 1

\* The word pieces of the title the last __getitem__ call read.
ItemPieces == AtLabel(Dataset(item[1].ds).X, item[1].index)

\* C7: whatever the title's length, __getitem__ returns ids and mask of
\* length max_len exactly, the mask being 1s followed by 0s, and all 1s when
\* the title with its two special tokens fills or exceeds max_len.
C7_FixedLength ==
    item # <<>> =>
        LET v == item[1].value
            max_len == Dataset(item[1].ds).max_len
        IN  /\ Len(v.ids) = max_len
            /\ Len(v.mask) = max_len
            /\ \E k \in 0 .. max_len :
                \A j \in 1 .. max_len : v.mask[j] = IF j <= k THEN 1 ELSE 0
            /\ ItemPieces + 2 >= max_len =>
                \A j \in 1 .. max_len : v.mask[j] = 1
            /\ ItemPieces + 2 < max_len =>
                /\ v.mask[ItemPieces + 2] = 1
                /\ v.mask[ItemPieces + 3] = 0

C7_Witness ==
    /\ item # <<>>
    /\ ItemPieces > MAX_LEN
    /\ item[1].index > 0
    /\ Len(item[1].value.ids) = MAX_LEN

====
